---- MODULE Spec2Model ----
(***************************************************************************)
(* A model of scripts/mc_setup.py: the MinecraftConfiguration orchestrator. *)
(*                                                                         *)
(* Python strings that the program lower-cases, prefix-matches, sorts or   *)
(* parses are sequences of one-character strings.  A value that the code   *)
(* only tests for truthiness (None, "", an empty list) is the empty        *)
(* sequence.  An optional value is <<>> (None) or <<v>>.                   *)
(* Path.move (line 163) is the pathlib method of Python 3.14.              *)
(***************************************************************************)
EXTENDS Integers, Sequences, FiniteSets, TLC

(***************************************************************************)
(* Bounds of the model.                                                    *)
(***************************************************************************)
MaxFiles == 2    \* jar files in the mods directory
MaxMods == 2     \* entries of config["mods"]
MaxHits == 2     \* hits of one search response
MaxOptions == 2  \* options given on the command line besides --instance

(***************************************************************************)
(* Characters and strings.                                                 *)
(***************************************************************************)
\* str.lower() on one character of the alphabet in use
LowerChar(c) == IF c = "A" THEN "a" ELSE IF c = "Y" THEN "y" ELSE c

Lower(s) == [i \in 1..Len(s) |-> LowerChar(s[i])]

\* ord(c) for the characters in use: Python compares strings by code point
Ord(c) ==
  CASE c = " " -> 32 [] c = "-" -> 45 [] c = "." -> 46
    [] c = "0" -> 48 [] c = "1" -> 49 [] c = "2" -> 50 [] c = "3" -> 51
    [] c = "A" -> 65 [] c = "Y" -> 89
    [] c = "a" -> 97 [] c = "b" -> 98 [] c = "c" -> 99 [] c = "f" -> 102
    [] c = "i" -> 105 [] c = "j" -> 106 [] c = "n" -> 110 [] c = "r" -> 114
    [] c = "y" -> 121
    [] OTHER -> 127

RECURSIVE StrLess(_, _)
\* s < t for Python strings
StrLess(s, t) ==
  IF t = <<>> THEN FALSE
  ELSE IF s = <<>> THEN TRUE
  ELSE IF Ord(Head(s)) # Ord(Head(t)) THEN Ord(Head(s)) < Ord(Head(t))
  ELSE StrLess(Tail(s), Tail(t))

\* str.startswith
StartsWith(s, p) == Len(p) <= Len(s) /\ SubSeq(s, 1, Len(p)) = p

RECURSIVE Strip(_)
\* str.strip() for the blank character
Strip(s) ==
  IF s = <<>> THEN s
  ELSE IF Head(s) = " " THEN Strip(Tail(s))
  ELSE IF s[Len(s)] = " " THEN Strip(SubSeq(s, 1, Len(s) - 1))
  ELSE s

RECURSIVE InsertByKey(_, _)
\* insert x after every element whose key is not greater (a stable sort step)
InsertByKey(x, sorted) ==
  IF sorted = <<>> THEN <<x>>
  ELSE IF StrLess(x.key, Head(sorted).key) THEN <<x>> \o sorted
  ELSE <<Head(sorted)>> \o InsertByKey(x, Tail(sorted))

RECURSIVE SortKeyed(_)
\* a stable ascending sort of [key, val] records by key
SortKeyed(seq) ==
  IF seq = <<>> THEN <<>>
  ELSE InsertByKey(seq[Len(seq)], SortKeyed(SubSeq(seq, 1, Len(seq) - 1)))

Range(seq) == {seq[i] : i \in 1..Len(seq)}

\* the sequences over S of length at most n
SeqsUpTo(S, n) == UNION {[1..k -> S] : k \in 0..n}

\* the sequences over S without repetition, of length at most n
DistinctSeqs(S, n) ==
  {q \in SeqsUpTo(S, n) : \A i, j \in 1..Len(q) : i # j => q[i] # q[j]}

(***************************************************************************)
(* The data the runs are drawn from.                                       *)
(***************************************************************************)
JAR == <<".", "j", "a", "r">>

\* file names of the mods directory and of remote files
N_ab3 == <<"a", "b", "-", "3", ".", "0">> \o JAR                    \* ab-3.0.jar
N_Ab2 == <<"A", "b", "-", "f", "a", "b", "r", "i", "c", "-", "2", ".", "0">> \o JAR
                                                                    \* Ab-fabric-2.0.jar
N_abc1 == <<"a", "b", "c", "-", "1", ".", "0">> \o JAR              \* abc-1.0.jar
N_b == <<"b">> \o JAR                                               \* b.jar

\* the names a mods directory is made of
Names == {N_Ab2, N_abc1, N_b}

\* the names of the files Modrinth serves
RemoteNames == {N_Ab2, N_abc1, N_ab3}

S_ab == <<"a", "b">>
S_abc == <<"a", "b", "c">>
P_Ab == <<"A", "b">>

\* entries of config["mods"]: a slug, and a prefix when the file name differs
ModUniverse == {[slug |-> S_ab], [slug |-> S_ab, prefix |-> P_Ab], [slug |-> S_abc]}

\* config["instances"], a JSON object, in key order
Instances ==
  << [name |-> "one", data |-> [instance_dir |-> "one_dir", version |-> "1.20"]],
     [name |-> "two", data |-> [instance_dir |-> "two_dir", version |-> "1.21"]] >>

\* the values of --instance: absent, a configured name, an unknown name
InstanceArgs == {"", "one", "other"}

\* the values of --search: absent, a query
SearchArgs == {<<>>, <<"a", "b">>}

\* hits of a Modrinth search
HitUniverse ==
  {[slug |-> S_ab, title |-> "AB", project_type |-> "mod", author |-> "ann"],
   [slug |-> S_abc, title |-> "ABC", project_type |-> "mod", author |-> "bob"]}

\* what call_modrinth returns for a search: None (unparsable body), an object
\* without "hits", or an object with a list of hits
SearchResponses ==
  {<<>>} \cup {<<[total_hits |-> 0]>>}
    \cup {<<[hits |-> h]>> : h \in SeqsUpTo(HitUniverse, MaxHits)}

\* what call_modrinth returns for project/<slug>/version: nothing (None or an
\* empty list), a version without files, or versions whose first file is named
VersionResponses ==
  {<<>>} \cup {<<[files |-> <<>>]>>}
    \cup {<<[files |-> <<[filename |-> n, url |-> <<"u", "/">> \o n]>>]>> : n \in RemoteNames}

\* what the user types at the instance chooser
ChooserInputs ==
  {[numeric |-> TRUE, value |-> v] : v \in 0..(Len(Instances) + 1)}
    \cup {[numeric |-> FALSE, value |-> 0]}

\* what the user types at the confirmation prompt
Answers == {<<"y">>, <<"Y", " ">>, <<"n">>, <<>>}

(***************************************************************************)
(* The state.                                                              *)
(***************************************************************************)
VARIABLES
  config,          \* self.config, the loaded JSON object
  config_file,     \* content of ~/.puffer_scripts_config.json (<<>> when absent)
  config_bak,      \* content of ~/.puffer_scripts_config.json.bak
  args,            \* self.args
  mods,            \* self.mods: the dict slug -> entry, in insertion order
  pc,              \* position of run()
  error,           \* the exception that ended the run, "" when none
  instance_data,   \* <<>> or <<the selected instance>>
  mod_dir,         \* self.mod_dir, a path (<<>> before it is set)
  chooser_prompts, \* times "Choose an instance:" was asked
  files,           \* the directory self.mod_dir in glob order: [name, content]
                   \* (<<>> while no directory is designated)
  backup,          \* <<>> or <<the set of files of the backup folder>>
  searches,        \* the calls of search(): response, printed lines, result
  listed,          \* the names printed by list()
  current_plugins, \* get_current_mods(): [slug, path] in self.mods order
  report,          \* the outcome analyse_mods printed for each mod
  changes,         \* the list analyse_mods returned
  confirm_prompts, \* times "Proceed with update?" was asked
  answered_yes,    \* the answer at line 153 compared equal to "y"
  updates,         \* install_updates: changes with action "update"
  additions,       \* install_updates: changes with action "add"
  k,               \* install_updates / find_unmanaged: loop position
  unmanaged_mods,  \* find_unmanaged: the sorted unmanaged paths
  mods_to_add      \* find_unmanaged: mods_to_add_to_config

vars ==
  << config, config_file, config_bak, args, mods, pc, error, instance_data,
     mod_dir, chooser_prompts, files, backup, searches, listed,
     current_plugins, report, changes, confirm_prompts, answered_yes, updates,
     additions, k, unmanaged_mods, mods_to_add >>

\* dict.get("prefix", slug) of a mod entry
ModPrefix(m) == IF "prefix" \in DOMAIN m THEN m.prefix ELSE m.slug

RECURSIVE ModsDict(_)
\* {mod["slug"]: mod for mod in config["mods"]}: a repeated slug keeps its
\* first position and takes the last entry
ModsDict(list) ==
  IF list = <<>> THEN <<>>
  ELSE LET d == ModsDict(SubSeq(list, 1, Len(list) - 1))
           m == list[Len(list)]
       IN IF \E i \in 1..Len(d) : d[i].slug = m.slug
          THEN [i \in 1..Len(d) |-> IF d[i].slug = m.slug THEN m ELSE d[i]]
          ELSE Append(d, m)

\* a file that was in the mods directory before the run
LocalFile(n) == [name |-> n, content |-> [src |-> "local", id |-> n]]

\* the contents a mods directory can have when run() designates it
Directories ==
  {[i \in 1..Len(names) |-> LocalFile(names[i])] : names \in DistinctSeqs(Names, MaxFiles)}

\* the options of a command line that are set
OptionCount(a) ==
  Cardinality({o \in {"list", "exclude_managed", "update", "find_unmanaged"} : a[o]})
    + (IF a.search # <<>> THEN 1 ELSE 0)

\* the command lines: argparse's namespace, with at most MaxOptions options
CommandLines ==
  {a \in [search : SearchArgs, instance : InstanceArgs, list : BOOLEAN,
           exclude_managed : BOOLEAN, update : BOOLEAN, find_unmanaged : BOOLEAN] :
     OptionCount(a) <= MaxOptions}

\* __init__: the config is loaded, the arguments parsed, self.mods built
Init ==
  /\ \E ml \in SeqsUpTo(ModUniverse, MaxMods), srv \in BOOLEAN :
       config = [instances_dir |-> <<"games">>, instances |-> Instances,
                 is_server |-> srv, mods |-> ml]
  /\ config_file = <<config>>
  /\ config_bak = <<>>
  /\ args \in CommandLines
  /\ mods = ModsDict(config.mods)
  /\ pc = "run"
  /\ error = ""
  /\ instance_data = <<>>
  /\ mod_dir = <<>>
  /\ chooser_prompts = 0
  /\ files = <<>>
  /\ backup = <<>>
  /\ searches = <<>>
  /\ listed = <<>>
  /\ current_plugins = <<>>
  /\ report = <<>>
  /\ changes = <<>>
  /\ confirm_prompts = 0
  /\ answered_yes = FALSE
  /\ updates = <<>>
  /\ additions = <<>>
  /\ k = 0
  /\ unmanaged_mods = <<>>
  /\ mods_to_add = <<>>

(***************************************************************************)
(* search (lines 68-79).                                                   *)
(***************************************************************************)
\* data.get("hits", [])
HitsOf(data) == IF "hits" \in DOMAIN data THEN data.hits ELSE <<>>

\* a variant of HitIndex: the hits numbered from 0, as enumerate counts
HitIndexFromZero(i) == i - 1

\* hit["index"] = i + 1 (line 76)
HitIndex(i) == i

\* the line printed for hits[i] at line 77
HitLine(hits, i) ==
  [index |-> HitIndex(i), title |-> hits[i].title,
   project_type |-> hits[i].project_type, author |-> hits[i].author,
   slug |-> hits[i].slug]

\* what search prints for a parsed response
SearchLines(data) ==
  LET hits == HitsOf(data)
  IN (IF hits = <<>> THEN <<[text |-> "No results"]>> ELSE <<>>)
       \o [i \in 1..Len(hits) |-> HitLine(hits, i)]

\* what search returns: the hits, each with its "index" set
SearchResult(data) ==
  LET hits == HitsOf(data)
  IN [i \in 1..Len(hits) |->
        [index |-> HitIndex(i), title |-> hits[i].title,
         project_type |-> hits[i].project_type, author |-> hits[i].author,
         slug |-> hits[i].slug]]

\* the record of one call of search
SearchCall(resp) ==
  [response |-> resp, lines |-> SearchLines(resp[1]), result |-> SearchResult(resp[1])]

(***************************************************************************)
(* run (lines 119-149).                                                    *)
(***************************************************************************)
\* lines 120-122: --search runs the search and exits
RunSearch ==
  /\ pc = "run"
  /\ args.search # <<>>
  /\ \E resp \in SearchResponses :
       IF resp = <<>>
       THEN /\ error' = "AttributeError"     \* None.get at line 71
            /\ pc' = "crashed"
            /\ UNCHANGED searches
       ELSE /\ searches' = Append(searches, SearchCall(resp))
            /\ pc' = "done"
            /\ UNCHANGED error
  /\ UNCHANGED << config, config_file, config_bak, args, mods, instance_data,
                  mod_dir, chooser_prompts, files, backup, listed,
                  current_plugins, report, changes, confirm_prompts,
                  answered_yes, updates, additions, k, unmanaged_mods,
                  mods_to_add >>

\* config["instances"].get(name): <<>> when the name is not a key
InstanceGet(name) ==
  IF \E i \in 1..Len(config.instances) : config.instances[i].name = name
  THEN <<(CHOOSE e \in Range(config.instances) : e.name = name).data>>
  ELSE <<>>

\* lines 134-136
ModDirOf(data) ==
  LET instance_dir == config.instances_dir \o <<data.instance_dir>>
      minecraft_dir == IF config.is_server THEN instance_dir
                       ELSE instance_dir \o <<".minecraft">>
  IN minecraft_dir \o <<"mods">>

\* lines 124-136, --instance given.  For an unknown name line 129 formats
\* instance_dir, a name bound nowhere in run, so the NameError ends the run
\* before line 130 can call the chooser.
SelectNamedInstance ==
  /\ pc = "run"
  /\ args.search = <<>>
  /\ args.instance # ""
  /\ IF InstanceGet(args.instance) # <<>>
     THEN /\ instance_data' = InstanceGet(args.instance)
          /\ mod_dir' = ModDirOf(instance_data'[1])
          /\ files' \in Directories
          /\ pc' = "selected"
          /\ UNCHANGED error
     ELSE /\ error' = "NameError"
          /\ pc' = "crashed"
          /\ UNCHANGED << instance_data, mod_dir, files >>
  /\ UNCHANGED << config, config_file, config_bak, args, mods,
                  chooser_prompts, backup, searches, listed,
                  current_plugins, report, changes, confirm_prompts,
                  answered_yes, updates, additions, k, unmanaged_mods,
                  mods_to_add >>

\* lines 131-132: without --instance the chooser is called
RunChooser ==
  /\ pc = "run"
  /\ args.search = <<>>
  /\ args.instance = ""
  /\ pc' = "choose"
  /\ UNCHANGED << config, config_file, config_bak, args, mods, error,
                  instance_data, mod_dir, chooser_prompts, files, backup,
                  searches, listed, current_plugins, report, changes,
                  confirm_prompts, answered_yes, updates, additions, k,
                  unmanaged_mods, mods_to_add >>

\* get_instance_data (lines 49-55), then lines 134-136
GetInstanceData ==
  /\ pc = "choose"
  /\ chooser_prompts' = chooser_prompts + 1
  /\ \E typed \in ChooserInputs :
       IF ~typed.numeric
       THEN /\ error' = "ValueError"         \* int() at line 55
            /\ pc' = "crashed"
            /\ UNCHANGED << instance_data, mod_dir, files >>
       ELSE IF typed.value - 1 \notin 0..(Len(config.instances) - 1)
       THEN /\ error' = "KeyError"           \* instance_map[...] at line 55
            /\ pc' = "crashed"
            /\ UNCHANGED << instance_data, mod_dir, files >>
       ELSE /\ instance_data' = <<config.instances[typed.value].data>>
            /\ mod_dir' = ModDirOf(instance_data'[1])
            /\ files' \in Directories
            /\ pc' = "selected"
            /\ UNCHANGED error
  /\ UNCHANGED << config, config_file, config_bak, args, mods, backup,
                  searches, listed, current_plugins, report, changes,
                  confirm_prompts, answered_yes, updates, additions, k,
                  unmanaged_mods, mods_to_add >>

(***************************************************************************)
(* get_current_mods (lines 106-117) and list (lines 81-86).                *)
(***************************************************************************)
\* a variant of PrefixMatches: the prefix compared as configured, as line 85 does
PrefixMatchesRawPrefix(name, prefix) == StartsWith(Lower(name), prefix)

\* line 113: mod_name.startswith(prefix.lower()), mod_name lower-cased at 111
PrefixMatches(name, prefix) == StartsWith(Lower(name), Lower(prefix))

\* the position in glob order where the inner loop of lines 110-115 breaks
\* (0 when it runs to the end)
FirstMatch(mod, dir) ==
  LET hits == {i \in 1..Len(dir) : PrefixMatches(dir[i].name, ModPrefix(mod))}
  IN IF hits = {} THEN 0 ELSE CHOOSE i \in hits : \A j \in hits : i <= j

RECURSIVE ManagedMods(_, _)
\* managed_mods: one [slug, path] per mod of self.mods that has a match
ManagedMods(ms, dir) ==
  IF ms = <<>> THEN <<>>
  ELSE LET m == Head(ms)
           i == FirstMatch(m, dir)
       IN (IF i = 0 THEN <<>> ELSE <<[slug |-> m.slug, path |-> dir[i].name]>>)
            \o ManagedMods(Tail(ms), dir)

GetCurrentMods == ManagedMods(mods, files)

\* line 85: mod.lower().startswith(m.get("prefix", m["slug"]))
ListMatches(name, prefix) == StartsWith(Lower(name), prefix)

\* sorted(names, key=lambda m: m.lower())
SortedByLower(names) ==
  LET keyed == SortKeyed([i \in 1..Len(names) |-> [key |-> Lower(names[i]), val |-> names[i]]])
  IN [i \in 1..Len(keyed) |-> keyed[i].val]

\* the condition of line 85
ListPrints(name) ==
  \/ ~args.exclude_managed
  \/ ~\E i \in 1..Len(mods) : ListMatches(name, ModPrefix(mods[i]))

\* lines 142-144 and list
List ==
  /\ pc = "selected"
  /\ ~args.find_unmanaged
  /\ args.list
  /\ listed' = SelectSeq(SortedByLower([i \in 1..Len(files) |-> files[i].name]), ListPrints)
  /\ pc' = "done"
  /\ UNCHANGED << config, config_file, config_bak, args, mods, error,
                  instance_data, mod_dir, chooser_prompts, files, backup,
                  searches, current_plugins, report, changes, confirm_prompts,
                  answered_yes, updates, additions, k, unmanaged_mods,
                  mods_to_add >>

(***************************************************************************)
(* analyse_mods (lines 174-199) with latest_plugin_info (99-103) and       *)
(* get_url_for_latest_mod (88-96).                                         *)
(***************************************************************************)
\* get_url_for_latest_mod on a response that has a first file: <<>> is None
LatestOf(data) ==
  IF data = <<>> THEN <<>>
  ELSE <<[file |-> data[1].files[1].filename, url |-> data[1].files[1].url]>>

\* line 180: the name of the matched file, <<>> for None
CurrentOf(slug, current) ==
  IF \E i \in 1..Len(current) : current[i].slug = slug
  THEN (CHOOSE e \in Range(current) : e.slug = slug).path
  ELSE <<>>

\* a variant of Outcome: the matched path, not its name, is compared with
\* the latest file name, so an installed mod never counts as up to date
OutcomeComparingPath(current, latest) ==
  IF latest = <<>> THEN "not-found-remotely"
  ELSE IF current = <<>> THEN "missing-locally"
  ELSE "update-available"

\* the branch of lines 183-197 taken for one mod
Outcome(current, latest) ==
  IF latest = <<>> THEN "not-found-remotely"
  ELSE IF current = <<>> THEN "missing-locally"
  ELSE IF current = latest[1].file THEN "up-to-date"
  ELSE "update-available"

\* what lines 192 and 197 append for one mod
ChangeFor(slug, current, latest) ==
  LET o == Outcome(current, latest)
  IN IF o = "missing-locally"
     THEN <<[mod |-> slug, action |-> "add", latest |-> latest[1].file,
             url |-> latest[1].url]>>
     ELSE IF o = "update-available"
     THEN <<[mod |-> slug, action |-> "update", current |-> current,
             latest |-> latest[1].file, url |-> latest[1].url]>>
     ELSE <<>>

RECURSIVE AnalyseLoop(_, _, _)
\* the loop of lines 179-197 from position i: the changes appended
AnalyseLoop(i, current, latest) ==
  IF i > Len(mods) THEN <<>>
  ELSE ChangeFor(mods[i].slug, CurrentOf(mods[i].slug, current), latest[i])
         \o AnalyseLoop(i + 1, current, latest)

\* lines 146-149: analyse_mods, then install_updates when --update is set
AnalyseMods ==
  /\ pc = "selected"
  /\ ~args.find_unmanaged
  /\ ~args.list
  /\ \E data \in [1..Len(mods) -> VersionResponses] :
       IF \E i \in 1..Len(mods) : data[i] # <<>> /\ data[i][1].files = <<>>
       THEN /\ error' = "IndexError"         \* data[0]["files"][0] at line 95
            /\ pc' = "crashed"
            /\ UNCHANGED << current_plugins, report, changes >>
       ELSE LET latest == [i \in 1..Len(mods) |-> LatestOf(data[i])]
                current == GetCurrentMods
            IN /\ current_plugins' = current
               /\ report' = [i \in 1..Len(mods) |->
                               [mod |-> mods[i].slug,
                                current |-> CurrentOf(mods[i].slug, current),
                                latest |-> latest[i],
                                outcome |-> Outcome(CurrentOf(mods[i].slug, current), latest[i])]]
               /\ changes' = AnalyseLoop(1, current, latest)
               /\ pc' = IF args.update THEN "confirm" ELSE "done"
               /\ UNCHANGED error
  /\ UNCHANGED << config, config_file, config_bak, args, mods, instance_data,
                  mod_dir, chooser_prompts, files, backup, searches, listed,
                  confirm_prompts, answered_yes, updates, additions, k,
                  unmanaged_mods, mods_to_add >>

(***************************************************************************)
(* install_updates (lines 151-171).                                        *)
(***************************************************************************)
\* a variant of Proceeds: Enter takes the default the prompt shows, "[y]"
ProceedsByDefault(answer) == Lower(Strip(answer)) \in {<<"y">>, <<>>}

\* line 153: input(...).strip().lower() == "y"
Proceeds(answer) == Lower(Strip(answer)) = <<"y">>

\* lines 155-156
ChangesWith(action) == SelectSeq(changes, LAMBDA c : c.action = action)

\* where install_updates goes after the updates loop
AfterUpdates(adds) == IF adds # <<>> THEN "add" ELSE "done"

\* lines 152-158: the prompt, and the two lists when the answer is yes
InstallPrompt ==
  /\ pc = "confirm"
  /\ confirm_prompts' = confirm_prompts + 1
  /\ \E answer \in Answers :
       /\ answered_yes' = (Lower(Strip(answer)) = <<"y">>)
       /\ IF Proceeds(answer)
          THEN /\ updates' = ChangesWith("update")
               /\ additions' = ChangesWith("add")
               /\ k' = 1
               /\ pc' = IF updates' # <<>> THEN "mkdir" ELSE AfterUpdates(additions')
          ELSE /\ pc' = "done"
               /\ UNCHANGED << updates, additions, k >>
  /\ UNCHANGED << config, config_file, config_bak, args, mods, error,
                  instance_data, mod_dir, chooser_prompts, files, backup,
                  searches, listed, current_plugins, report, changes,
                  unmanaged_mods, mods_to_add >>

\* lines 159-161: mkdir raises when a folder of that timestamp is there already
MakeBackupFolder ==
  /\ pc = "mkdir"
  /\ \E exists \in BOOLEAN :
       IF exists
       THEN /\ error' = "FileExistsError"
            /\ pc' = "crashed"
            /\ UNCHANGED backup
       ELSE /\ backup' = <<{}>>
            /\ pc' = "move"
            /\ UNCHANGED error
  /\ UNCHANGED << config, config_file, config_bak, args, mods, instance_data,
                  mod_dir, chooser_prompts, files, searches, listed,
                  current_plugins, report, changes, confirm_prompts,
                  answered_yes, updates, additions, k, unmanaged_mods,
                  mods_to_add >>

HasFile(dir, n) == \E i \in 1..Len(dir) : dir[i].name = n

FileNamed(dir, n) == CHOOSE f \in Range(dir) : f.name = n

\* the directory without the file named n
Without(dir, n) == SelectSeq(dir, LAMBDA f : f.name # n)

\* the directory after a file named n is written: overwritten in place, or new
WithFile(dir, n, c) ==
  IF HasFile(dir, n)
  THEN [i \in 1..Len(dir) |-> IF dir[i].name = n THEN [name |-> n, content |-> c] ELSE dir[i]]
  ELSE Append(dir, [name |-> n, content |-> c])

\* line 163: (mod_dir / current).move(backup_folder / current)
MoveOld ==
  /\ pc = "move"
  /\ LET current == updates[k].current
     IN IF HasFile(files, current)
        THEN /\ files' = Without(files, current)
             /\ backup' = <<{f \in backup[1] : f.name # current} \cup {FileNamed(files, current)}>>
             /\ pc' = "download"
             /\ UNCHANGED error
        ELSE /\ error' = "FileNotFoundError"
             /\ pc' = "crashed"
             /\ UNCHANGED << files, backup >>
  /\ UNCHANGED << config, config_file, config_bak, args, mods, instance_data,
                  mod_dir, chooser_prompts, searches, listed, current_plugins,
                  report, changes, confirm_prompts, answered_yes, updates,
                  additions, k, unmanaged_mods, mods_to_add >>

\* urlretrieve(url, new_mod): the file is written, or the transfer fails
\* before or after the target was opened
Retrieve(change, outcome) ==
  IF outcome = "ok"
  THEN WithFile(files, change.latest, [src |-> "remote", id |-> change.url])
  ELSE IF outcome = "partial"
  THEN WithFile(files, change.latest, [src |-> "partial", id |-> change.url])
  ELSE files

RetrieveOutcomes == {"ok", "partial", "refused"}

\* lines 164-166: the replacement of updates[k] is downloaded
DownloadUpdate ==
  /\ pc = "download"
  /\ \E outcome \in RetrieveOutcomes :
       /\ files' = Retrieve(updates[k], outcome)
       /\ IF outcome = "ok"
          THEN /\ k' = IF k < Len(updates) THEN k + 1 ELSE 1
               /\ pc' = IF k < Len(updates) THEN "move" ELSE AfterUpdates(additions)
               /\ UNCHANGED error
          ELSE /\ error' = "URLError"
               /\ pc' = "crashed"
               /\ UNCHANGED k
  /\ UNCHANGED << config, config_file, config_bak, args, mods, instance_data,
                  mod_dir, chooser_prompts, backup, searches, listed,
                  current_plugins, report, changes, confirm_prompts,
                  answered_yes, updates, additions, unmanaged_mods,
                  mods_to_add >>

\* lines 167-171: additions[k] is downloaded
DownloadAddition ==
  /\ pc = "add"
  /\ \E outcome \in RetrieveOutcomes :
       /\ files' = Retrieve(additions[k], outcome)
       /\ IF outcome = "ok"
          THEN /\ k' = k + 1
               /\ pc' = IF k < Len(additions) THEN "add" ELSE "done"
               /\ UNCHANGED error
          ELSE /\ error' = "URLError"
               /\ pc' = "crashed"
               /\ UNCHANGED k
  /\ UNCHANGED << config, config_file, config_bak, args, mods, instance_data,
                  mod_dir, chooser_prompts, backup, searches, listed,
                  current_plugins, report, changes, confirm_prompts,
                  answered_yes, updates, additions, unmanaged_mods,
                  mods_to_add >>

(***************************************************************************)
(* find_unmanaged (lines 202-226) and update_config (lines 228-234).       *)
(***************************************************************************)
\* set(current_mods) - set(managed_mods.values()), sorted by lower-cased name
\* (no two names of Names are equal when lower-cased, so the order is fixed)
UnmanagedMods(dir, managed) ==
  SortedByLower(SelectSeq([i \in 1..Len(dir) |-> dir[i].name],
                          LAMBDA n : \A j \in 1..Len(managed) : managed[j].path # n))

IsDigit(c) == c \in {"0", "1", "2"}

\* s has w at position i
HasAt(s, i, w) == i >= 1 /\ i + Len(w) - 1 <= Len(s) /\ SubSeq(s, i, i + Len(w) - 1) = w

\* -\d+(?:\.\d+)+.*\.jar matches s from position i
VersionAt(s, i) ==
  /\ HasAt(s, i, <<"-">>)
  /\ \E j \in (i + 1)..Len(s) :
       /\ \A p \in (i + 1)..j : IsDigit(s[p])
       /\ j + 2 <= Len(s)
       /\ s[j + 1] = "."
       /\ IsDigit(s[j + 2])
       /\ \E q \in (j + 3)..Len(s) : HasAt(s, q, JAR)

\* (?:-fabric)?-\d+(?:\.\d+)+.*\.jar matches s from position i
TailAt(s, i) ==
  \/ HasAt(s, i, <<"-", "f", "a", "b", "r", "i", "c">>) /\ VersionAt(s, i + 7)
  \/ VersionAt(s, i)

\* re.match(r"(.*?)(?:-fabric)?-\d+(?:\.\d+)+.*\.jar", name): <<>> for no
\* match, else <<m[1]>>, the shortest prefix the rest can follow
SearchTerm(name) ==
  LET starts == {g \in 0..Len(name) : TailAt(name, g + 1)}
  IN IF starts = {} THEN <<>>
     ELSE <<SubSeq(name, 1, CHOOSE g \in starts : \A h \in starts : g <= h)>>

\* what the user types at line 216, after strip(): digits or not
ChoiceInputs ==
  {[numeric |-> TRUE, value |-> v] : v \in 0..(MaxHits + 1)}
    \cup {[numeric |-> FALSE, value |-> 0]}

\* lines 217-222: the entry appended for a chosen result, <<>> for none
ChosenEntry(term, results, choice) ==
  IF choice.numeric /\ choice.value > 0 /\ choice.value <= Len(results)
  THEN LET slug == results[choice.value].slug
       IN IF term # slug /\ term # <<>>
          THEN <<[slug |-> slug, prefix |-> term]>>
          ELSE <<[slug |-> slug]>>
  ELSE <<>>

\* lines 138-140 and 203-207
FindUnmanaged ==
  /\ pc = "selected"
  /\ args.find_unmanaged
  /\ current_plugins' = GetCurrentMods
  /\ unmanaged_mods' = UnmanagedMods(files, current_plugins')
  /\ mods_to_add' = <<>>
  /\ k' = 1
  /\ pc' = "unmanaged"
  /\ UNCHANGED << config, config_file, config_bak, args, mods, error,
                  instance_data, mod_dir, chooser_prompts, files, backup,
                  searches, listed, report, changes, confirm_prompts,
                  answered_yes, updates, additions >>

\* lines 209-224: one pass of the loop over unmanaged_mods
UnmanagedStep ==
  /\ pc = "unmanaged"
  /\ k <= Len(unmanaged_mods)
  /\ LET m == SearchTerm(unmanaged_mods[k])
     IN IF m = <<>>
        THEN /\ k' = k + 1                   \* "Cannot parse"
             /\ UNCHANGED << pc, error, searches, mods_to_add >>
        ELSE \E resp \in SearchResponses :
               IF resp = <<>>
               THEN /\ error' = "AttributeError"
                    /\ pc' = "crashed"
                    /\ UNCHANGED << k, searches, mods_to_add >>
               ELSE /\ searches' = Append(searches, SearchCall(resp))
                    /\ k' = k + 1
                    /\ IF SearchResult(resp[1]) # <<>>
                       THEN \E choice \in ChoiceInputs :
                              mods_to_add' = mods_to_add
                                 \o ChosenEntry(m[1], SearchResult(resp[1]), choice)
                       ELSE UNCHANGED mods_to_add
                    /\ UNCHANGED << pc, error >>
  /\ UNCHANGED << config, config_file, config_bak, args, mods, instance_data,
                  mod_dir, chooser_prompts, files, backup, listed,
                  current_plugins, report, changes, confirm_prompts,
                  answered_yes, updates, additions, unmanaged_mods >>

\* a variant of SortedBySlug: the list is extended and left as it is
LeftUnsorted(list) == list

\* lines 229-230: extend, then sort by slug
SortedBySlug(list) ==
  LET keyed == SortKeyed([i \in 1..Len(list) |-> [key |-> list[i].slug, val |-> list[i]]])
  IN [i \in 1..Len(keyed) |-> keyed[i].val]

\* line 226 and update_config: the old file becomes the .bak file and the
\* config is written anew (a file's content is held as the JSON value)
UpdateConfig ==
  /\ pc = "unmanaged"
  /\ k > Len(unmanaged_mods)
  /\ config' = [config EXCEPT !.mods = SortedBySlug(config.mods \o mods_to_add)]
  /\ config_bak' = config_file
  /\ config_file' = <<config'>>
  /\ pc' = "done"
  /\ UNCHANGED << args, mods, error, instance_data, mod_dir, chooser_prompts,
                  files, backup, searches, listed, current_plugins, report,
                  changes, confirm_prompts, answered_yes, updates, additions,
                  k, unmanaged_mods, mods_to_add >>

Next ==
  \/ RunSearch
  \/ SelectNamedInstance
  \/ RunChooser
  \/ GetInstanceData
  \/ FindUnmanaged
  \/ UnmanagedStep
  \/ UpdateConfig
  \/ List
  \/ AnalyseMods
  \/ InstallPrompt
  \/ MakeBackupFolder
  \/ MoveOld
  \/ DownloadUpdate
  \/ DownloadAddition

Spec == Init /\ [][Next]_vars

(***************************************************************************)
(* Properties.                                                             *)
(***************************************************************************)
\* the positions of run() between the end of analyse_mods and the end of
\* install_updates
AfterAnalysis == {"confirm", "mkdir", "move", "download", "add"}

\* name starts with prefix when letter case is ignored
StartsIgnoringCase(name, prefix) ==
  /\ Len(prefix) <= Len(name)
  /\ \A p \in 1..Len(prefix) : LowerChar(name[p]) = LowerChar(prefix[p])

\* the prefix of a configured mod: its "prefix" field, or its slug
PrefixOrSlug(m) == IF "prefix" \in DOMAIN m THEN m.prefix ELSE m.slug

\* some configured mod claims the file name n
MatchesSomeMod(n) ==
  \E i \in 1..Len(mods) : StartsIgnoringCase(n, PrefixOrSlug(mods[i]))

\* C1: analyse_mods gives every configured mod exactly one of the four
\* outcomes: not-found-remotely when the lookup returned nothing, otherwise
\* missing-locally when no local file matched, otherwise up-to-date when the
\* local name equals the latest remote name, otherwise update-available; the
\* change list has one "add" per missing-locally mod, one "update" per
\* update-available mod and nothing for the other two outcomes.
C1_Classification ==
  /\ pc \in AfterAnalysis =>
       /\ Len(report) = Len(mods)
       /\ \A i \in 1..Len(mods) : report[i].mod = mods[i].slug
  /\ \A i \in 1..Len(report) :
       LET r == report[i]
           mine == {j \in 1..Len(changes) : changes[j].mod = r.mod}
       IN /\ r.outcome \in {"up-to-date", "update-available", "missing-locally",
                            "not-found-remotely"}
          /\ (r.current = <<>>) <=> ~\E e \in Range(current_plugins) : e.slug = r.mod
          /\ (r.outcome = "not-found-remotely") <=> (r.latest = <<>>)
          /\ (r.outcome = "missing-locally") <=> (r.latest # <<>> /\ r.current = <<>>)
          /\ (r.outcome = "up-to-date") <=>
               (r.latest # <<>> /\ r.current # <<>> /\ r.current = r.latest[1].file)
          /\ (r.outcome = "update-available") <=>
               (r.latest # <<>> /\ r.current # <<>> /\ r.current # r.latest[1].file)
          /\ Cardinality(mine) =
               IF r.outcome \in {"missing-locally", "update-available"} THEN 1 ELSE 0
          /\ \A j \in mine :
               /\ changes[j].action =
                    IF r.outcome = "missing-locally" THEN "add" ELSE "update"
               /\ changes[j].latest = r.latest[1].file
               /\ changes[j].url = r.latest[1].url
  /\ \A j \in 1..Len(changes) : \E i \in 1..Len(report) : report[i].mod = changes[j].mod

\* C1 witness: one analysis found a mod that is installed but unknown to
\* Modrinth, and another that can be updated
C1_Witness ==
  /\ pc = "confirm"
  /\ \E i, j \in 1..Len(report) :
       /\ report[i].outcome = "not-found-remotely"
       /\ report[i].current # <<>>
       /\ report[j].outcome = "update-available"
  /\ Len(changes) = 1

\* the mods directory is as get_current_mods saw it
DirectoryAsGlobbed ==
  \/ pc \in {"confirm", "mkdir", "unmanaged"}
  \/ pc = "done" /\ args.search = <<>> /\ ~args.list /\ ~answered_yes

\* C2: get_current_mods maps every configured mod to the first jar file in
\* glob order whose name starts with the mod's prefix (its slug when no
\* prefix is set), letter case ignored on both sides, and leaves the mod
\* out exactly when no jar file matches.
C2_FirstMatchIgnoringCase ==
  DirectoryAsGlobbed =>
    /\ \A e \in Range(current_plugins) : \E i \in 1..Len(mods) : mods[i].slug = e.slug
    /\ \A i \in 1..Len(mods) :
         LET matching == {j \in 1..Len(files) :
                            StartsIgnoringCase(files[j].name, PrefixOrSlug(mods[i]))}
             mine == {n \in 1..Len(current_plugins) : current_plugins[n].slug = mods[i].slug}
         IN IF matching = {}
            THEN mine = {}
            ELSE /\ Cardinality(mine) = 1
                 /\ \A n \in mine : \E j \in matching :
                      /\ \A h \in matching : j <= h
                      /\ current_plugins[n].path = files[j].name

\* C2 witness: two files match a mod, the first of them only because letter
\* case is ignored, and the mod is mapped to the first
C2_Witness ==
  /\ pc = "confirm"
  /\ Len(files) = 2
  /\ \E i \in 1..Len(mods) :
       /\ ~StartsWith(files[1].name, PrefixOrSlug(mods[i]))
       /\ StartsIgnoringCase(files[1].name, PrefixOrSlug(mods[i]))
       /\ StartsIgnoringCase(files[2].name, PrefixOrSlug(mods[i]))
       /\ \E e \in Range(current_plugins) : e.slug = mods[i].slug /\ e.path = files[1].name

\* the number of positions of seq that hold e
Count(seq, e) == Cardinality({i \in 1..Len(seq) : seq[i] = e})

\* C3: after update_config(mods_to_add) the rewritten config keeps every key
\* other than "mods" with its previous value, and its "mods" list holds
\* every previously configured entry and every entry of mods_to_add, in
\* ascending order of slug.
C3_ConfigRewrite ==
  config_bak # <<>> =>
    LET old == config_bak[1]
        new == config_file[1]
    IN /\ new = config
       /\ DOMAIN new = DOMAIN old
       /\ \A key \in DOMAIN old \ {"mods"} : new[key] = old[key]
       /\ Len(new.mods) = Len(old.mods) + Len(mods_to_add)
       /\ \A e \in Range(old.mods) \cup Range(mods_to_add) :
            Count(new.mods, e) = Count(old.mods, e) + Count(mods_to_add, e)
       /\ \A i, j \in 1..Len(new.mods) :
            i < j => ~StrLess(new.mods[j].slug, new.mods[i].slug)

\* C3 witness: entries were added to a non-empty list and the sort moved them
C3_Witness ==
  /\ config_bak # <<>>
  /\ mods_to_add # <<>>
  /\ config_bak[1].mods # <<>>
  /\ config_file[1].mods # config_bak[1].mods \o mods_to_add

\* C5: no file of the mods directory is moved, created or overwritten and no
\* backup folder is made unless the run has --update and none of --search,
\* --list, --find-unmanaged, the analysis has finished and the user answered
\* y to the confirmation prompt; the prompt is asked at most once in a run.
C5_GuardedByOnePrompt ==
  [][ /\ confirm_prompts' <= 1
      /\ (mod_dir # <<>> /\ (files' # files \/ backup' # backup)) =>
           /\ args.update
           /\ args.search = <<>>
           /\ ~args.list
           /\ ~args.find_unmanaged
           /\ Len(report) = Len(mods)
           /\ pc \in AfterAnalysis
           /\ confirm_prompts = 1
           /\ answered_yes ]_vars

\* C5 witness: after a yes a file has been moved into the backup folder
C5_Witness ==
  /\ answered_yes
  /\ backup # <<>>
  /\ backup[1] # {}

\* C8: for one response search always prints the same: one line per hit, in
\* the order of the response, numbered 1..n, or "No results" when there is
\* no hit; and it returns the hits in that order.
C8_SearchRendering ==
  /\ \A c \in 1..Len(searches) :
       LET data == searches[c].response[1]
           hits == IF "hits" \in DOMAIN data THEN data.hits ELSE <<>>
           lines == searches[c].lines
           result == searches[c].result
       IN /\ hits = <<>> => lines = <<[text |-> "No results"]>>
          /\ hits # <<>> =>
               /\ Len(lines) = Len(hits)
               /\ \A i \in 1..Len(hits) :
                    /\ lines[i].index = i
                    /\ lines[i].title = hits[i].title
                    /\ lines[i].project_type = hits[i].project_type
                    /\ lines[i].author = hits[i].author
                    /\ lines[i].slug = hits[i].slug
          /\ Len(result) = Len(hits)
          /\ \A i \in 1..Len(hits) :
               /\ result[i].slug = hits[i].slug
               /\ result[i].title = hits[i].title
  /\ \A c, d \in 1..Len(searches) :
       searches[c].response = searches[d].response =>
         /\ searches[c].lines = searches[d].lines
         /\ searches[c].result = searches[d].result

\* C8 witness: two searches of one run got the same response of two hits
C8_Witness ==
  /\ Len(searches) = 2
  /\ searches[1].response = searches[2].response
  /\ Len(searches[1].lines) = 2
  /\ Len(searches[1].result) = 2

\* C4: once a confirmed install_updates has completed, every replaced file
\* (the installed file of each "update" change) is in the backup folder and
\* no longer in the mods directory, and the latest file is in the mods
\* directory; it was moved before the download of its replacement started.
C4_ReplacedFilesBackedUp ==
  /\ pc = "download" =>
       /\ LocalFile(updates[k].current) \in backup[1]
       /\ LocalFile(updates[k].current) \notin Range(files)
  /\ (pc = "done" /\ answered_yes) =>
       \A i \in 1..Len(updates) :
         /\ LocalFile(updates[i].current) \in backup[1]
         /\ LocalFile(updates[i].current) \notin Range(files)
         /\ [name |-> updates[i].latest,
             content |-> [src |-> "remote", id |-> updates[i].url]] \in Range(files)

\* C6: list prints the jar files in case-insensitive alphabetical order;
\* with --exclude-managed a file is printed exactly when its name does not
\* start, letter case ignored, with the prefix (or the slug) of any
\* configured mod, and without it every file is printed.
C6_ListExcludesManaged ==
  (pc = "done" /\ args.search = <<>> /\ ~args.find_unmanaged /\ args.list) =>
    LET expected == {files[i].name : i \in {j \in 1..Len(files) :
                       ~args.exclude_managed \/ ~MatchesSomeMod(files[j].name)}}
    IN /\ Range(listed) = expected
       /\ Len(listed) = Cardinality(expected)
       /\ \A i, j \in 1..Len(listed) :
            i < j => ~StrLess(Lower(listed[j]), Lower(listed[i]))

\* C7: find_unmanaged treats a jar file as unmanaged exactly when its name
\* does not start, letter case ignored, with the prefix or slug of any
\* configured mod; a file that matches a configured mod is never unmanaged.
C7_UnmanagedAreUnmatched ==
  pc = "unmanaged" =>
    Range(unmanaged_mods) =
      {files[i].name : i \in {j \in 1..Len(files) : ~MatchesSomeMod(files[j].name)}}

\* the names of the configured instances
InstanceNames == {config.instances[i].name : i \in 1..Len(config.instances)}

\* the run is past the instance selection of lines 124-136
PastSelection ==
  /\ args.search = <<>>
  /\ pc \in {"selected", "unmanaged", "confirm", "mkdir", "move", "download", "add", "done"}

\* C9: a configured --instance is used without a prompt; an unknown
\* --instance falls back to the chooser instead of ending the run; without
\* --instance the chooser is used; and the mods directory is derived from
\* the selected instance before any later step runs.
C9_InstanceSelection ==
  /\ (args.search = <<>> /\ pc # "run" /\ args.instance \in InstanceNames) =>
       /\ chooser_prompts = 0
       /\ \E i \in 1..Len(config.instances) :
            /\ config.instances[i].name = args.instance
            /\ instance_data = <<config.instances[i].data>>
  /\ (args.search = <<>> /\ pc # "run" /\ args.instance \notin InstanceNames) =>
       (pc = "choose" \/ chooser_prompts >= 1)
  /\ PastSelection =>
       /\ \E i \in 1..Len(config.instances) : instance_data = <<config.instances[i].data>>
       /\ mod_dir = config.instances_dir \o <<instance_data[1].instance_dir>>
                      \o (IF config.is_server THEN <<>> ELSE <<".minecraft">>) \o <<"mods">>

\* the files install_updates has to leave alone: the installed file of an
\* up-to-date mod or of a mod not found remotely, and a file no mod matched
LeftAlone(f) ==
  /\ f.content.src = "local"
  /\ \/ \E i \in 1..Len(report) :
          /\ report[i].current = f.name
          /\ report[i].outcome \in {"up-to-date", "not-found-remotely"}
     \/ ~\E e \in Range(current_plugins) : e.path = f.name

\* one step of a confirmed update touches only what it has to
OnlyNeededFilesStep ==
  pc \in AfterAnalysis =>
    /\ \A f \in Range(files) :
         (~HasFile(files', f.name)) =>
           \E i \in 1..Len(report) :
             report[i].outcome = "update-available" /\ report[i].current = f.name
    /\ \A f \in Range(files') :
         f \notin Range(files) =>
           \E j \in 1..Len(changes) : changes[j].latest = f.name
    /\ \A f \in Range(files) : LeftAlone(f) => f \in Range(files')

\* C10: a confirmed update moves only the installed files of
\* update-available mods and downloads only for update-available or
\* missing-locally mods; the files of up-to-date mods, of mods not found
\* remotely and of no configured mod stay unchanged in the mods directory.
C10_OnlyNeededFilesTouched == [][OnlyNeededFilesStep]_vars

====
